---- MODULE Spec2Model ----
(***************************************************************************)
(* CashPing: a Cloudflare Worker that receives Stripe webhooks, verifies   *)
(* the Stripe-Signature header (HMAC-SHA256 + timestamp tolerance),        *)
(* normalizes "payment succeeded" events and fans the record out to the    *)
(* configured notification channels (src/worker.js).                       *)
(*                                                                         *)
(* Representation of JavaScript values                                     *)
(*   - a string is a sequence of text units.  Text that the code inspects  *)
(*     character by character (the signature header, timestamps, tags,     *)
(*     numeric settings) is held one character per unit; text the code     *)
(*     only passes along (secrets, the request body) is a single unit.     *)
(*   - undefined is the distinguished sequence Undefined.                  *)
(*   - a number is a record [nan, val]: NaN, or the integer val.           *)
(***************************************************************************)
EXTENDS Integers, Sequences, FiniteSets, TLC

VARIABLES env, now, served, req, pc, verified, evt, info, tasks, invoked,
          outbound, response, err, prev

vars == <<env, now, served, req, pc, verified, evt, info, tasks, invoked,
          outbound, response, err, prev>>

(***************************************************************************)
(* JavaScript strings, truthiness and numbers                              *)
(***************************************************************************)
Undefined == <<"#undefined">>

\* ToBoolean of a string-or-undefined value: undefined and "" are falsy.
Truthy(v) == v # Undefined /\ v # <<>>

NaN == [nan |-> TRUE, val |-> 0]

Num(n) == [nan |-> FALSE, val |-> n]

\* Number.isFinite on the result of parseInt (never an infinity).
IsFinite(x) == ~x.nan

\* a - b and Math.abs on JavaScript numbers: NaN propagates.
NumSub(a, b) == IF a.nan \/ b.nan THEN NaN ELSE Num(a.val - b.val)

NumAbs(a) == IF a.nan THEN NaN ELSE Num(IF a.val < 0 THEN -a.val ELSE a.val)

\* a > b on JavaScript numbers: every comparison with NaN is false.
NumGt(a, b) == ~a.nan /\ ~b.nan /\ a.val > b.val

Digits == <<"0", "1", "2", "3", "4", "5", "6", "7", "8", "9">>

IsDigit(c) == \E i \in 1..Len(Digits) : Digits[i] = c

DigitVal(c) == (CHOOSE i \in 1..Len(Digits) : Digits[i] = c) - 1

IsSpace(c) == c = " "

\* String.prototype.trim: whitespace removed at both ends.
RECURSIVE TrimLeft(_)
TrimLeft(s) ==
  IF s # <<>> /\ IsSpace(Head(s)) THEN TrimLeft(Tail(s)) ELSE s

RECURSIVE TrimRight(_)
TrimRight(s) ==
  IF s # <<>> /\ IsSpace(s[Len(s)]) THEN TrimRight(SubSeq(s, 1, Len(s) - 1))
  ELSE s

Trim(s) == TrimRight(TrimLeft(s))

\* String.prototype.split(sep) for a one-character separator: "" splits to
\* the one-element list [""].
RECURSIVE Split(_, _)
Split(s, sep) ==
  IF \E i \in 1..Len(s) : s[i] = sep
  THEN LET i == CHOOSE j \in 1..Len(s) :
                  s[j] = sep /\ \A k \in 1..(j - 1) : s[k] # sep
       IN <<SubSeq(s, 1, i - 1)>> \o Split(SubSeq(s, i + 1, Len(s)), sep)
  ELSE <<s>>

\* The leading run of decimal digits of s.
RECURSIVE DigitPrefix(_)
DigitPrefix(s) ==
  IF s # <<>> /\ IsDigit(Head(s)) THEN <<Head(s)>> \o DigitPrefix(Tail(s))
  ELSE <<>>

RECURSIVE DecimalValue(_)
DecimalValue(ds) ==
  IF ds = <<>> THEN 0
  ELSE 10 * DecimalValue(SubSeq(ds, 1, Len(ds) - 1)) + DigitVal(ds[Len(ds)])

\* parseInt(s, 10): leading whitespace skipped, an optional sign, then the
\* longest run of digits; anything after it is ignored; no digit gives NaN.
parseInt(s) ==
  LET t    == TrimLeft(s)
      neg  == t # <<>> /\ Head(t) = "-"
      sgn  == t # <<>> /\ (Head(t) = "-" \/ Head(t) = "+")
      body == IF sgn THEN Tail(t) ELSE t
      ds   == DigitPrefix(body)
  IN IF ds = <<>> THEN NaN
     ELSE Num(IF neg THEN -DecimalValue(ds) ELSE DecimalValue(ds))

(***************************************************************************)
(* HMAC-SHA256 and hex encoding                                            *)
(*                                                                         *)
(* SHA-256 is replaced by a 16-bit keyed polynomial digest over the text   *)
(* units of key and message; it is collision free on the inputs the model  *)
(* draws (DigestInjective below).                                          *)
(***************************************************************************)
HexDigits == <<"0", "1", "2", "3", "4", "5", "6", "7", "8", "9",
               "a", "b", "c", "d", "e", "f">>

HexDigitsUpper == <<"0", "1", "2", "3", "4", "5", "6", "7", "8", "9",
                    "A", "B", "C", "D", "E", "F">>

\* bufferToHex with upper-case digits.
RECURSIVE bufferToHex_Upper(_)
bufferToHex_Upper(buf) ==
  IF buf = <<>> THEN <<>>
  ELSE <<HexDigitsUpper[(Head(buf) \div 16) + 1],
         HexDigitsUpper[(Head(buf) % 16) + 1]>> \o bufferToHex_Upper(Tail(buf))

\* Each byte as two lower-case hex digits (toString(16).padStart(2, "0")).
RECURSIVE bufferToHex(_)
bufferToHex(buf) ==
  IF buf = <<>> THEN <<>>
  ELSE <<HexDigits[(Head(buf) \div 16) + 1],
         HexDigits[(Head(buf) % 16) + 1]>> \o bufferToHex(Tail(buf))

\* The text units the digest is defined on: the characters of header text
\* and the whole-text units (secrets, request bodies) of the model's inputs.
TextUnits ==
  <<"0", "1", "2", "3", "4", "5", "6", "7", "8", "9",
    "a", "b", "c", "d", "e", "f", "x", "z", ".", "-", "+", " ", "=", ",",
    "whsec_live", "whsec_forged",
    "{\"type\":\"payment_intent.succeeded\",\"data\":{\"object\":{\"id\":\"pi_1\",\"amount\":1999,\"currency\":\"usd\"}}}",
    "{\"id\":\"evt_2\",\"type\":\"checkout.session.completed\"}",
    "{\"id\":\"evt_3\",\"type\":\"customer.created\"}",
    "null",
    "[]",
    "not json">>

UnitCode(u) == CHOOSE i \in 1..Len(TextUnits) : TextUnits[i] = u

\* crypto.subtle.sign("HMAC", key, message): the digest bytes.
RECURSIVE DigestFold(_, _)
DigestFold(h, s) ==
  IF s = <<>> THEN h
  ELSE DigestFold((h * 33 + UnitCode(Head(s))) % 65536, Tail(s))

SignHmac(secret, message) ==
  LET k == DigestFold(5381, secret)
      h == DigestFold((k * 257 + 1) % 65536, message)
  IN <<h \div 256, h % 256>>

hmacSHA256Hex(secret, message) == bufferToHex(SignHmac(secret, message))

\* constantTimeEqual: unequal lengths fail at once; otherwise the xor of
\* every pair of characters is accumulated and compared to 0 at the end.
constantTimeEqual_LengthOnly(a, b) == Len(a) = Len(b)

constantTimeEqual(a, b) ==
  IF Len(a) # Len(b) THEN FALSE
  ELSE \A i \in 1..Len(a) : a[i] = b[i]

(***************************************************************************)
(* verifyStripeSignature                                                   *)
(***************************************************************************)
\* The loop over signatureHeader.split(","): each piece is trimmed and split
\* at "="; [k, v] are its first two fields; parts[k] = v when both are
\* non-empty.  The result lists the assignments in order.
RECURSIVE HeaderAssignments(_)
HeaderAssignments(pieces) ==
  IF pieces = <<>> THEN <<>>
  ELSE LET f == Split(Trim(Head(pieces)), "=")
           k == f[1]
           v == IF Len(f) >= 2 THEN f[2] ELSE Undefined
       IN (IF Truthy(k) /\ Truthy(v) THEN <<<<k, v>>>> ELSE <<>>)
          \o HeaderAssignments(Tail(pieces))

\* parts[key] after the loop: the first assignment to key.
PartOf_FirstWins(assigns, key) ==
  IF \E i \in 1..Len(assigns) : assigns[i][1] = key
  THEN assigns[CHOOSE i \in 1..Len(assigns) :
                 assigns[i][1] = key
                 /\ \A j \in 1..(i - 1) : assigns[j][1] # key][2]
  ELSE Undefined

\* parts[key] after the loop: the last assignment to key wins.
PartOf(assigns, key) ==
  IF \E i \in 1..Len(assigns) : assigns[i][1] = key
  THEN assigns[CHOOSE i \in 1..Len(assigns) :
                 assigns[i][1] = key
                 /\ \A j \in (i + 1)..Len(assigns) : assigns[j][1] # key][2]
  ELSE Undefined

ParseSignatureHeader(signatureHeader) ==
  LET assigns == HeaderAssignments(Split(signatureHeader, ","))
  IN [t  |-> PartOf(assigns, <<"t">>),
      v1 |-> PartOf(assigns, <<"v", "1">>)]

\* `${t}.${payload}`
SignedPayload(t, payload) == t \o <<".">> \o payload

\* |nowSec - ts| > tolerance, the reverse test (ts inside the window).
OutsideTolerance_Strict(nowSec, ts, tolerance) ==
  ~NumGt(tolerance, NumAbs(NumSub(nowSec, ts)))

\* Math.abs(nowSec - ts) > timestampToleranceSec
OutsideTolerance(nowSec, ts, tolerance) ==
  NumGt(NumAbs(NumSub(nowSec, ts)), tolerance)

ErrNone == "none"
ErrMissingSecret == "missing STRIPE_WEBHOOK_SECRET"
ErrBadHeader == "invalid Stripe-Signature header"
ErrTimestamp == "signature timestamp outside tolerance"
ErrMismatch == "signature mismatch"

\* The error verifyStripeSignature throws, ErrNone when it returns normally.
verifyStripeSignature(signatureHeader, payload, signingSecret, timestampToleranceSec, nowSec) ==
  IF ~Truthy(signingSecret) THEN ErrMissingSecret
  ELSE LET parts == ParseSignatureHeader(signatureHeader)
           t     == parts.t
           v1    == parts.v1
       IN IF ~Truthy(t) \/ ~Truthy(v1) THEN ErrBadHeader
          ELSE LET ts == parseInt(t)
               IN IF ~IsFinite(ts)
                     \/ OutsideTolerance(Num(nowSec), ts, timestampToleranceSec)
                  THEN ErrTimestamp
                  ELSE IF ~constantTimeEqual(
                             hmacSHA256Hex(signingSecret, SignedPayload(t, payload)),
                             v1)
                       THEN ErrMismatch
                       ELSE ErrNone

(***************************************************************************)
(* JSON values                                                             *)
(*                                                                         *)
(* A JSON scalar is a record [k, n, s]: k its type, n the value of a       *)
(* number, s the text of a string.                                         *)
(***************************************************************************)
JUndef == [k |-> "undefined", n |-> 0, s |-> <<>>]

JNull == [k |-> "null", n |-> 0, s |-> <<>>]

JNum(n) == [k |-> "number", n |-> n, s |-> <<>>]

JStr(s) == [k |-> "string", n |-> 0, s |-> s]

\* ToBoolean: undefined, null, 0 and "" are falsy.
JTruthy(v) ==
  \/ v.k = "number" /\ v.n # 0
  \/ v.k = "string" /\ v.s # <<>>

\* a || b
JOr(a, b) == IF JTruthy(a) THEN a ELSE b

\* a || b written where a ?? b stands.
JNullish_Or(a, b) == IF JTruthy(a) THEN a ELSE b

\* a ?? b
JNullish(a, b) == IF a.k \in {"undefined", "null"} THEN b ELSE a

\* The decimal digits of a natural number.
RECURSIVE NatString(_)
NatString(n) ==
  IF n < 10 THEN <<Digits[n + 1]>>
  ELSE NatString(n \div 10) \o <<Digits[(n % 10) + 1]>>

\* String(n) for an integer.
IntString(n) == IF n < 0 THEN <<"-">> \o NatString(-n) ELSE NatString(n)

\* String(v) as parseInt and toString see it.
JToString(v) ==
  CASE v.k = "string" -> v.s
    [] v.k = "number" -> IntString(v.n)
    [] v.k = "null" -> <<"null">>
    [] OTHER -> <<"undefined">>

LowerLetters == <<"a", "b", "c", "d", "e", "f", "g", "h", "i", "j", "k", "l",
                  "m", "n", "o", "p", "q", "r", "s", "t", "u", "v", "w", "x",
                  "y", "z">>

UpperLetters == <<"A", "B", "C", "D", "E", "F", "G", "H", "I", "J", "K", "L",
                  "M", "N", "O", "P", "Q", "R", "S", "T", "U", "V", "W", "X",
                  "Y", "Z">>

UpperChar(c) ==
  IF \E i \in 1..Len(LowerLetters) : LowerLetters[i] = c
  THEN UpperLetters[CHOOSE i \in 1..Len(LowerLetters) : LowerLetters[i] = c]
  ELSE c

\* The text left as it is.
toUpperCase_Identity(s) == s

\* String.prototype.toUpperCase
toUpperCase(s) == [i \in 1..Len(s) |-> UpperChar(s[i])]

(***************************************************************************)
(* Events.  The object at data.object is a record of the fields the        *)
(* normalizer reads, nested paths flattened (metadata?.quantity is the     *)
(* field metadata_quantity), each a JSON scalar, JUndef when absent.       *)
(***************************************************************************)
EmptyObject ==
  [id |-> JUndef, currency |-> JUndef, currency_code |-> JUndef,
   amount_total |-> JUndef, amount_paid |-> JUndef, amount_due |-> JUndef,
   amount |-> JUndef, amount_captured |-> JUndef, created |-> JUndef,
   customer_details_email |-> JUndef, customer_email |-> JUndef,
   receipt_email |-> JUndef, billing_details_email |-> JUndef,
   payment_intent |-> JUndef, charge |-> JUndef, subscription |-> JUndef,
   invoice |-> JUndef, metadata_product_name |-> JUndef,
   display_items_0_custom_name |-> JUndef, metadata_name |-> JUndef,
   metadata_quantity |-> JUndef, payment_method_types_0 |-> JUndef,
   payment_method_details_type |-> JUndef, payment_method |-> JUndef,
   customer |-> JUndef]

\* A decoded JSON value as the handler uses it: kind is "object", "null" or
\* "other" (a number, string, boolean or array, on which .type is
\* undefined); has_object tells whether data?.object is a non-null object.
Event(type, id, has_object, object) ==
  [kind |-> "object", type |-> type, id |-> id,
   has_object |-> has_object, object |-> object]

NonEvent(kind) ==
  [kind |-> kind, type |-> JUndef, id |-> JUndef,
   has_object |-> FALSE, object |-> EmptyObject]

NoEvent == NonEvent("none")

(***************************************************************************)
(* normalizeStripeEvent and formatAmount                                   *)
(***************************************************************************)
DefaultCurrency == <<"u", "s", "d">>

\* The default product name, the two-character literal at worker.js:193
\* (code points U+652F U+4ED8).
DefaultProductName == <<"U+652F", "U+4ED8">>

DefaultPaymentMethod == <<"stripe">>

\* Two digits, zero padded.
TwoDigits(n) == <<Digits[(n \div 10) + 1], Digits[(n % 10) + 1]>>

\* (amountMinor / 100).toFixed(2) prefixed by the currency; a value that is
\* not a number formats as NaN.
formatAmount(amountMinor, currency) ==
  LET a == IF amountMinor.n < 0 THEN -amountMinor.n ELSE amountMinor.n
  IN IF amountMinor.k # "number"
     THEN currency \o <<" ">> \o <<"N", "a", "N">>
     ELSE currency \o <<" ">>
          \o (IF amountMinor.n < 0 THEN <<"-">> ELSE <<>>)
          \o NatString(a \div 100) \o <<".">> \o TwoDigits(a % 100)

\* parseInt(q || "1", 10) || 1 without the final fallback.
Quantity_NoFallback(q) == parseInt(JToString(JOr(q, JStr(<<"1">>))))

\* parseInt(obj.metadata?.quantity || "1", 10) || 1
Quantity(q) ==
  LET n == parseInt(JToString(JOr(q, JStr(<<"1">>))))
  IN IF n.nan \/ n.val = 0 THEN Num(1) ELSE n

normalizeStripeEvent(e, nowMs) ==
  LET obj      == IF e.has_object THEN e.object ELSE EmptyObject
      currency == toUpperCase(JToString(
                    JOr(obj.currency, JOr(obj.currency_code, JStr(DefaultCurrency)))))
      amountMinor ==
        JNullish(obj.amount_total,
        JNullish(obj.amount_paid,
        JNullish(obj.amount_due,
        JNullish(obj.amount,
        JNullish(obj.amount_captured, JNum(0))))))
  IN [event_type |-> e.type,
      id |-> JOr(obj.id, e.id),
      created_ms |-> IF JTruthy(obj.created) THEN JNum(obj.created.n * 1000)
                     ELSE JNum(nowMs),
      currency |-> currency,
      amount_minor |-> amountMinor,
      amount_readable |-> formatAmount(amountMinor, currency),
      email |-> JOr(obj.customer_details_email, JOr(obj.customer_email,
                JOr(obj.receipt_email, JOr(obj.billing_details_email, JNull)))),
      order_no |-> JOr(obj.id, JOr(obj.payment_intent, JOr(obj.charge,
                   JOr(obj.subscription, JOr(obj.invoice, e.id))))),
      product_name |-> JOr(obj.metadata_product_name,
                       JOr(obj.display_items_0_custom_name,
                       JOr(obj.metadata_name, JStr(DefaultProductName)))),
      quantity |-> Quantity(obj.metadata_quantity),
      payment_method |-> JOr(obj.payment_method_types_0,
                         JOr(obj.payment_method_details_type,
                         JOr(obj.payment_method, JStr(DefaultPaymentMethod)))),
      customer_id |-> JOr(obj.customer, JNull)]

(***************************************************************************)
(* Inputs: request bodies, JSON.parse on them, signature headers           *)
(***************************************************************************)
BodyIntent ==
  <<"{\"type\":\"payment_intent.succeeded\",\"data\":{\"object\":{\"id\":\"pi_1\",\"amount\":1999,\"currency\":\"usd\"}}}">>

BodyCheckout == <<"{\"id\":\"evt_2\",\"type\":\"checkout.session.completed\"}">>

BodyCustomer == <<"{\"id\":\"evt_3\",\"type\":\"customer.created\"}">>

BodyNull == <<"null">>

BodyArray == <<"[]">>

BodyNotJson == <<"not json">>

Bodies ==
  {BodyIntent, BodyCheckout, BodyCustomer, BodyNull, BodyArray, BodyNotJson}

\* JSON.parse(rawBody): ok = FALSE when it throws a SyntaxError.
JSONParse(rawBody) ==
  CASE rawBody = BodyIntent ->
         [ok |-> TRUE,
          value |-> Event(JStr(<<"payment_intent.succeeded">>), JUndef, TRUE,
                          [EmptyObject EXCEPT !.id = JStr(<<"pi_1">>),
                                              !.amount = JNum(1999),
                                              !.currency = JStr(<<"u", "s", "d">>)])]
    [] rawBody = BodyCheckout ->
         [ok |-> TRUE,
          value |-> Event(JStr(<<"checkout.session.completed">>),
                          JStr(<<"evt_2">>), FALSE, EmptyObject)]
    [] rawBody = BodyCustomer ->
         [ok |-> TRUE,
          value |-> Event(JStr(<<"customer.created">>), JStr(<<"evt_3">>),
                          FALSE, EmptyObject)]
    [] rawBody = BodyNull -> [ok |-> TRUE, value |-> NonEvent("null")]
    [] rawBody = BodyArray -> [ok |-> TRUE, value |-> NonEvent("other")]
    [] OTHER -> [ok |-> FALSE, value |-> NoEvent]

okTypes ==
  {JStr(<<"payment_intent.succeeded">>), JStr(<<"checkout.session.completed">>),
   JStr(<<"invoice.payment_succeeded">>)}

LiveSecret == <<"whsec_live">>

ForgedSecret == <<"whsec_forged">>

\* Timestamps as header text.  StartTime is the clock of the first request.
StartTime == 1000

TNow == <<"1", "0", "0", "0">>
TOldEdge == <<"7", "0", "0">>
TStale == <<"6", "9", "9">>
TTenMinutesOld == <<"4", "0", "0">>
TFutureEdge == <<"1", "3", "0", "0">>
TFuture == <<"1", "3", "0", "1">>
TNotANumber == <<"a", "b", "c">>
TTrailing == <<"1", "0", "0", "0", "x">>

Timestamps ==
  {TNow, TOldEdge, TStale, TTenMinutesOld, TFutureEdge, TFuture, TNotANumber,
   TTrailing}

\* The tag Stripe computes for (secret, t, body).
TagFor(secret, t, body) == hmacSHA256Hex(secret, SignedPayload(t, body))

KV(k, v) == k \o <<"=">> \o v

RECURSIVE JoinComma(_)
JoinComma(items) ==
  IF items = <<>> THEN <<>>
  ELSE IF Len(items) = 1 THEN items[1]
  ELSE items[1] \o <<",">> \o JoinComma(Tail(items))

KeyT == <<"t">>
KeyV1 == <<"v", "1">>
KeyV0 == <<"v", "0">>

Request(method, path, rawBody, sigHeader, form, t, v1) ==
  [method |-> method, path |-> path, rawBody |-> rawBody,
   sigHeader |-> sigHeader, form |-> form, t |-> t, v1 |-> v1]

NoRequest == Request("", "", <<>>, <<>>, "none", Undefined, Undefined)

\* POST /stripe-webhook with the header "t=<t>,v1=<v1>".
Canonical(body, t, v1) ==
  Request("POST", "/stripe-webhook", body,
          JoinComma(<<KV(KeyT, t), KV(KeyV1, v1)>>), "canonical", t, v1)

\* POST /stripe-webhook with a header of another shape.
Shaped(body, form, header) ==
  Request("POST", "/stripe-webhook", body, header, form, Undefined, Undefined)

\* Tags that are not the tag of (LiveSecret, t, body).
WrongTags(t, body) ==
  {TagFor(ForgedSecret, t, body),
   TagFor(LiveSecret, t, BodyCheckout),
   TagFor(LiveSecret, TTenMinutesOld, body),
   bufferToHex_Upper(SignHmac(LiveSecret, SignedPayload(t, body))),
   SubSeq(TagFor(LiveSecret, t, body), 1, 2),
   TagFor(LiveSecret, t, body) \o <<"0">>}

GoodRequests ==
  {Canonical(b, t, TagFor(LiveSecret, t, b)) : b \in Bodies, t \in Timestamps}

BadTagRequests ==
  {Canonical(b, TNow, v) : b \in {BodyIntent, BodyCustomer},
                           v \in WrongTags(TNow, BodyIntent)}
  \cup {Canonical(BodyIntent, TStale, TagFor(ForgedSecret, TStale, BodyIntent))}

ShapedRequests ==
  LET b == BodyIntent
      g == TagFor(LiveSecret, TNow, b)
      w == TagFor(ForgedSecret, TNow, b)
      T == KV(KeyT, TNow)
      G == KV(KeyV1, g)
      W == KV(KeyV1, w)
  IN {Shaped(b, "empty", <<>>),
      Shaped(b, "only-t", T),
      Shaped(b, "only-v1", G),
      Shaped(b, "reversed", JoinComma(<<G, T>>)),
      Shaped(b, "spaced", T \o <<",", " ">> \o G),
      Shaped(b, "with-v0", JoinComma(<<T, G, KV(KeyV0, <<"z", "z">>)>>)),
      Shaped(b, "v1-bad-then-good", JoinComma(<<T, W, G>>)),
      Shaped(b, "v1-good-then-bad", JoinComma(<<T, G, W>>)),
      Shaped(b, "v1-empty", JoinComma(<<T, KV(KeyV1, <<>>)>>)),
      Shaped(b, "v1-good-then-empty", JoinComma(<<T, G, KV(KeyV1, <<>>)>>)),
      Shaped(b, "t-old-then-now", JoinComma(<<KV(KeyT, TTenMinutesOld), T, G>>)),
      Shaped(b, "v1-extra-field", JoinComma(<<T, G \o <<"=">> \o <<"z", "z">>>>))}

OtherRouteRequests ==
  {Request("GET", "/health", <<>>, <<>>, "none", Undefined, Undefined),
   Request("POST", "/health", BodyIntent, <<>>, "none", Undefined, Undefined),
   Request("GET", "/stripe-webhook", <<>>, <<>>, "none", Undefined, Undefined),
   Request("PUT", "/stripe-webhook", BodyIntent,
           JoinComma(<<KV(KeyT, TNow),
                       KV(KeyV1, TagFor(LiveSecret, TNow, BodyIntent))>>),
           "none", Undefined, Undefined),
   Request("GET", "/", <<>>, <<>>, "none", Undefined, Undefined),
   Request("POST", "/other", BodyIntent, <<>>, "none", Undefined, Undefined)}

Requests ==
  GoodRequests \cup BadTagRequests \cup ShapedRequests \cup OtherRouteRequests

\* The digest separates the signed payloads of the model's inputs.
DigestInjective ==
  \A s1, s2 \in {LiveSecret, ForgedSecret} :
    \A t1, t2 \in Timestamps : \A b1, b2 \in Bodies :
      TagFor(s1, t1, b1) = TagFor(s2, t2, b2) => s1 = s2 /\ t1 = t2 /\ b1 = b2

(***************************************************************************)
(* Configuration (env)                                                     *)
(***************************************************************************)
Set == <<"set">>

Env(secret, tolerance, mailTo, mailFrom, mailHeaders, scKey, dingtalk, tgToken, tgChat) ==
  [STRIPE_WEBHOOK_SECRET |-> secret, SIG_TOLERANCE_SEC |-> tolerance,
   MAIL_TO |-> mailTo, MAIL_FROM |-> mailFrom, MAIL_HEADERS |-> mailHeaders,
   SC_KEY |-> scKey, DINGTALK_WEBHOOK |-> dingtalk,
   TELEGRAM_BOT_TOKEN |-> tgToken, TELEGRAM_CHAT_ID |-> tgChat]

MailHeadersJson == <<"{\"List-Unsubscribe\":\"<mailto:u@example.com>\"}">>

MailHeadersBroken == <<"{List-Unsubscribe">>

\* JSON.parse(env.MAIL_HEADERS) throws on text that is not JSON.
MailHeadersParse(text) == text # MailHeadersBroken

OnOff == {Undefined, Set}

ToleranceSettings ==
  {Undefined, <<"0">>, <<"6", "0", "0">>, <<"a", "b", "c">>}

\* Configurations of the verification runs: every secret and tolerance
\* setting, with no channel, one channel, or all four configured.
VerifyEnvs ==
  {Env(s, tol, m, m, Undefined, c, c, m, m) :
     s \in {Undefined, <<>>, LiveSecret}, tol \in ToleranceSettings,
     m \in OnOff, c \in OnOff}

\* Configurations of the dispatch runs: every presence pattern of the six
\* channel keys and every MAIL_HEADERS setting.
DispatchEnvs ==
  {Env(LiveSecret, Undefined, mt, mf, mh, sc, dt, tt, tc) :
     mt \in OnOff, mf \in OnOff,
     mh \in {Undefined, MailHeadersJson, MailHeadersBroken},
     sc \in OnOff, dt \in OnOff, tt \in OnOff, tc \in OnOff}

\* Configurations of the runs to completion: each channel on or off, the
\* mail headers absent or broken.
LiveEnvs ==
  {Env(LiveSecret, Undefined, m, m, mh, sc, dt, tg, tg) :
     m \in OnOff, mh \in {Undefined, MailHeadersBroken},
     sc \in OnOff, dt \in OnOff, tg \in OnOff}

\* Configurations of the replay runs: every tolerance setting, with no
\* channel, two channels or all four configured.
ReplayEnvs ==
  {Env(LiveSecret, tol, m, m, Undefined, c, c, m, m) :
     tol \in ToleranceSettings, m \in OnOff, c \in OnOff}

\* Signed requests of the replay runs, and one with a forged tag.
ReplayRequests ==
  {Canonical(b, t, TagFor(LiveSecret, t, b)) :
     b \in {BodyIntent, BodyCheckout, BodyCustomer},
     t \in {TNow, TOldEdge, TTenMinutesOld}}
  \cup {Canonical(BodyIntent, TNow, TagFor(ForgedSecret, TNow, BodyIntent))}

DispatchRequests ==
  {Canonical(b, TNow, TagFor(LiveSecret, TNow, b)) : b \in Bodies}
  \cup {Canonical(BodyIntent, TNow, TagFor(ForgedSecret, TNow, BodyIntent)),
        Canonical(BodyIntent, TTenMinutesOld,
                  TagFor(LiveSecret, TTenMinutesOld, BodyIntent))}

DefaultToleranceSec == 300

\* env.SIG_TOLERANCE_SEC ? parseInt(env.SIG_TOLERANCE_SEC, 10) : 300
TimestampTolerance(e) ==
  IF Truthy(e.SIG_TOLERANCE_SEC) THEN parseInt(e.SIG_TOLERANCE_SEC)
  ELSE Num(DefaultToleranceSec)

(***************************************************************************)
(* Notifier adapters                                                       *)
(***************************************************************************)
Adapters == {"mail", "serverchan", "dingtalk", "telegram"}

\* The conditions of the four if statements that push a task.
Enabled_AnyKey(e, a) ==
  CASE a = "mail" -> Truthy(e.MAIL_TO) \/ Truthy(e.MAIL_FROM)
    [] a = "serverchan" -> Truthy(e.SC_KEY)
    [] a = "dingtalk" -> Truthy(e.DINGTALK_WEBHOOK)
    [] a = "telegram" -> Truthy(e.TELEGRAM_BOT_TOKEN) \/ Truthy(e.TELEGRAM_CHAT_ID)

Enabled(e, a) ==
  CASE a = "mail" -> Truthy(e.MAIL_TO) /\ Truthy(e.MAIL_FROM)
    [] a = "serverchan" -> Truthy(e.SC_KEY)
    [] a = "dingtalk" -> Truthy(e.DINGTALK_WEBHOOK)
    [] a = "telegram" -> Truthy(e.TELEGRAM_BOT_TOKEN) /\ Truthy(e.TELEGRAM_CHAT_ID)

\* Whether the adapter throws before its outbound fetch: the mail adapter
\* does on a MAIL_HEADERS value that JSON.parse rejects.
ThrowsBeforeFetch(e, a) ==
  a = "mail" /\ Truthy(e.MAIL_HEADERS) /\ ~MailHeadersParse(e.MAIL_HEADERS)

\* Task states: "none" (not pushed), "pending" (outbound call in flight),
\* "ok" (2xx), "non2xx", "neterr" (fetch rejected), "threw" (before fetch).
Outcomes == {"ok", "non2xx", "neterr"}

\* The state of the promise sendX(env, info).
SendPromise(t) ==
  CASE t = "pending" -> "pending"
    [] t = "ok" -> "fulfilled"
    [] OTHER -> "rejected"

\* sendX(env, info) pushed without .catch(console.warn).
Caught_NoCatch(p) == p

\* p.catch(console.warn): a rejection becomes a fulfilled promise.
Caught(p) == IF p = "rejected" THEN "fulfilled" ELSE p

\* A join that does not wait: fulfilled at once.
PromiseAll_NoWait(ps) ==
  IF \E p \in ps : p = "rejected" THEN "rejected" ELSE "fulfilled"

\* Promise.race in the place of Promise.all: settled as the first promise
\* is, and pending for ever over the empty list.
PromiseAll_Race(ps) ==
  IF \E p \in ps : p = "rejected" THEN "rejected"
  ELSE IF \E p \in ps : p = "fulfilled" THEN "fulfilled"
  ELSE "pending"

\* Promise.all over the set of promise states: rejected as soon as one is,
\* fulfilled when all are (at once for the empty list), pending otherwise.
PromiseAll(ps) ==
  IF \E p \in ps : p = "rejected" THEN "rejected"
  ELSE IF \A p \in ps : p = "fulfilled" THEN "fulfilled"
  ELSE "pending"

(***************************************************************************)
(* Responses                                                               *)
(***************************************************************************)
Response(status, body) == [status |-> status, body |-> body]

NoResponse == Response(0, "")

HealthResponse == Response(200, "ok")

NotFoundResponse == Response(404, "Not Found")

IgnoredResponse == Response(200, "ignored")

OkResponse == Response(200, "ok")

\* The catch block answering with the error's message.
ErrorResponse_Leaky(e) == Response(400, e)

\* The catch block answering with a server error status.
ErrorResponse_ServerError(e) == Response(500, "signature verification failed")

\* The catch block: one response whatever was thrown.
ErrorResponse(e) == Response(400, "signature verification failed")

(***************************************************************************)
(* The fetch handler                                                       *)
(***************************************************************************)
NoTasks == [a \in Adapters |-> "none"]

NoCalls == [a \in Adapters |-> 0]

MaxRequests == 2

Clock == {StartTime, StartTime + 400}

\* What an observer noted of the request served before this one (the worker
\* itself keeps nothing).
Prev(r, state, calls, answer) ==
  [req |-> r, pc |-> state, invoked |-> calls, response |-> answer]

NoPrev == Prev(NoRequest, "none", NoCalls, NoResponse)

InitWith(envs) ==
  /\ env \in envs
  /\ now = StartTime
  /\ served = 0
  /\ req = NoRequest
  /\ pc = "Idle"
  /\ verified = "none"
  /\ evt = NoEvent
  /\ info = <<>>
  /\ tasks = NoTasks
  /\ invoked = NoCalls
  /\ outbound = NoCalls
  /\ response = NoResponse
  /\ err = ErrNone
  /\ prev = NoPrev

Init == InitWith(VerifyEnvs)

InitDispatch == InitWith(DispatchEnvs)

\* Time passes between two requests.
Tick ==
  /\ pc = "Idle"
  /\ \E t \in Clock : t > now /\ now' = t
  /\ UNCHANGED <<prev, env, served, req, pc, verified, evt, info, tasks, invoked,
                 outbound, response, err>>

\* Routing on the path alone, whatever the method.
Route_PathOnly(r) ==
  IF r.path = "/health" THEN "Health"
  ELSE IF r.path = "/stripe-webhook" THEN "Verifying"
  ELSE "NotFound"

\* The two route tests at lines 23 and 28, and the fall-through at line 84.
Route(r) ==
  IF r.method = "GET" /\ r.path = "/health" THEN "Health"
  ELSE IF r.method = "POST" /\ r.path = "/stripe-webhook" THEN "Verifying"
  ELSE "NotFound"

\* Lines 20-31 and 84: routing, and reading the raw body and the header.
ReceiveFrom(requests) ==
  /\ pc = "Idle"
  /\ \E r \in requests :
       /\ req' = r
       /\ pc' = Route(r)
       /\ response' = CASE Route(r) = "Health" -> HealthResponse
                         [] Route(r) = "NotFound" -> NotFoundResponse
                         [] OTHER -> NoResponse
  /\ UNCHANGED <<prev, env, now, served, verified, evt, info, tasks, invoked,
                 outbound, err>>

Receive == ReceiveFrom(Requests)

ReceiveDispatch == ReceiveFrom(DispatchRequests)

\* The outcome of the try block's first statement, with the await dropped:
\* a rejection of verifyStripeSignature is not seen.
VerifyOutcome_NoAwait(e, r, nowSec) == ErrNone

\* await verifyStripeSignature({...}) at lines 35-42.
VerifyOutcome(e, r, nowSec) ==
  verifyStripeSignature(r.sigHeader, r.rawBody, e.STRIPE_WEBHOOK_SECRET,
                        TimestampTolerance(e), nowSec)

\* The error logged, and the handler going on to the next statement.
AfterVerify_FallsThrough(e) == "Filtering"

\* Where the handler goes after the await: on to JSON.parse, or, when
\* verification threw, into the catch block, which returns.
AfterVerify(e) == IF e = ErrNone THEN "Filtering" ELSE "Rejected"

Verify ==
  /\ pc = "Verifying"
  /\ LET e == VerifyOutcome(env, req, now)
     IN IF e = ErrNone
        THEN /\ verified' = "ok"
             /\ pc' = AfterVerify(e)
             /\ UNCHANGED <<response, err>>
        ELSE /\ verified' = "failed"
             /\ pc' = AfterVerify(e)
             /\ err' = e
             /\ response' = ErrorResponse(e)
  /\ UNCHANGED <<prev, env, now, served, req, evt, info, tasks, invoked, outbound>>

ErrSyntax == "SyntaxError"

ErrType == "TypeError"

\* Whether the event passes the type filter at line 51.
Accepted_All(e) == TRUE

\* The type filter with a check against the request served before.
Accepted_Deduplicated(e) ==
  e.type \in okTypes /\ ~(prev.pc = "Completed" /\ prev.req = req)

Accepted(e) == e.type \in okTypes

\* Lines 45-54: JSON.parse, then the type filter.  JSON.parse throws on
\* text that is not JSON, and reading .type of null throws a TypeError;
\* both land in the catch block.
Filter ==
  /\ pc = "Filtering"
  /\ LET p == JSONParse(req.rawBody)
     IN IF ~p.ok
        THEN /\ pc' = "Rejected"
             /\ err' = ErrSyntax
             /\ response' = ErrorResponse(ErrSyntax)
             /\ evt' = evt
        ELSE IF p.value.kind = "null"
        THEN /\ pc' = "Rejected"
             /\ err' = ErrType
             /\ response' = ErrorResponse(ErrType)
             /\ evt' = p.value
        ELSE IF ~Accepted(p.value)
        THEN /\ pc' = "Ignored"
             /\ response' = IgnoredResponse
             /\ evt' = p.value
             /\ err' = err
        ELSE /\ pc' = "Normalizing"
             /\ evt' = p.value
             /\ UNCHANGED <<response, err>>
  /\ UNCHANGED <<prev, env, now, served, req, verified, info, tasks, invoked,
                 outbound>>

\* Line 57.  Date.now() is in milliseconds.
Normalize ==
  /\ pc = "Normalizing"
  /\ info' = <<normalizeStripeEvent(evt, now * 1000)>>
  /\ pc' = "Dispatching"
  /\ UNCHANGED <<prev, env, now, served, req, verified, evt, tasks, invoked,
                 outbound, response, err>>

\* The Telegram adapter escaping the product name in the record itself.
SendEffect_EscapesInPlace(a, record) ==
  IF a = "telegram"
  THEN [record EXCEPT !.product_name = JStr(<<"\\">> \o record.product_name.s)]
  ELSE record

\* What adapter a leaves of the record it is given: each send function only
\* reads info (into its own title, text, html), so the record is as before.
SendEffect(a, record) == record

\* The record after the adapters called at lines 62-73 have run, in the
\* order of the four if statements.
RECURSIVE AfterSends(_, _, _)
AfterSends(e, order, record) ==
  IF order = <<>> THEN record
  ELSE AfterSends(e, Tail(order),
                  IF Enabled(e, Head(order)) THEN SendEffect(Head(order), record)
                  ELSE record)

AdapterOrder == <<"mail", "serverchan", "dingtalk", "telegram">>

\* Lines 60-73: each enabled adapter is called once; it runs up to its
\* outbound fetch, or throws before it.
Dispatch ==
  /\ pc = "Dispatching"
  /\ info' = <<AfterSends(env, AdapterOrder, info[1])>>
  /\ tasks' = [a \in Adapters |->
                 IF ~Enabled(env, a) THEN "none"
                 ELSE IF ThrowsBeforeFetch(env, a) THEN "threw"
                 ELSE "pending"]
  /\ invoked' = [a \in Adapters |->
                   IF Enabled(env, a) THEN invoked[a] + 1 ELSE invoked[a]]
  /\ outbound' = [a \in Adapters |->
                    IF Enabled(env, a) /\ ~ThrowsBeforeFetch(env, a)
                    THEN outbound[a] + 1 ELSE outbound[a]]
  /\ pc' = "Awaiting"
  /\ UNCHANGED <<prev, env, now, served, req, verified, evt, response, err>>

\* An outbound call settles: a 2xx response, another status, or a network
\* error.
Settle ==
  /\ \E a \in Adapters, o \in Outcomes :
       /\ tasks[a] = "pending"
       /\ tasks' = [tasks EXCEPT ![a] = o]
  /\ UNCHANGED <<prev, env, now, served, req, pc, verified, evt, info, invoked,
                 outbound, response, err>>

\* The promise awaited at line 75.
Joined(ts) == PromiseAll({Caught(SendPromise(ts[a])) : a \in {b \in Adapters : ts[b] # "none"}})

ErrAdapter == "adapter error"

\* await Promise.all(tasks) at line 75 and the return at line 76; a
\* rejection would land in the catch block.
Join ==
  /\ pc = "Awaiting"
  /\ Joined(tasks) # "pending"
  /\ IF Joined(tasks) = "fulfilled"
     THEN /\ pc' = "Completed"
          /\ response' = OkResponse
          /\ err' = err
     ELSE /\ pc' = "Rejected"
          /\ err' = ErrAdapter
          /\ response' = ErrorResponse(ErrAdapter)
  /\ UNCHANGED <<prev, env, now, served, req, verified, evt, info, tasks, invoked,
                 outbound>>

Terminal == {"Health", "NotFound", "Rejected", "Ignored", "Completed"}

\* The worker is ready for the next request; nothing of the last one is kept.
NextRequest ==
  /\ pc \in Terminal
  /\ served + 1 < MaxRequests
  /\ served' = served + 1
  /\ pc' = "Idle"
  /\ req' = NoRequest
  /\ verified' = "none"
  /\ evt' = NoEvent
  /\ info' = <<>>
  /\ tasks' = NoTasks
  /\ invoked' = NoCalls
  /\ outbound' = NoCalls
  /\ response' = NoResponse
  /\ err' = ErrNone
  /\ UNCHANGED <<prev, env, now>>

\* The same step, with the observer noting what the request came to.
NextRequestNoted ==
  /\ pc \in Terminal
  /\ served + 1 < MaxRequests
  /\ served' = served + 1
  /\ pc' = "Idle"
  /\ req' = NoRequest
  /\ verified' = "none"
  /\ evt' = NoEvent
  /\ info' = <<>>
  /\ tasks' = NoTasks
  /\ invoked' = NoCalls
  /\ outbound' = NoCalls
  /\ response' = NoResponse
  /\ err' = ErrNone
  /\ prev' = Prev(req, pc, invoked, response)
  /\ UNCHANGED <<env, now>>

Next ==
  \/ Receive
  \/ Tick
  \/ Verify
  \/ Filter
  \/ Normalize
  \/ Dispatch
  \/ Settle
  \/ Join
  \/ NextRequest

Spec == Init /\ [][Next]_vars

NextDispatch ==
  \/ ReceiveDispatch
  \/ Tick
  \/ Verify
  \/ Filter
  \/ Normalize
  \/ Dispatch
  \/ Settle
  \/ Join
  \/ NextRequest

SpecDispatch == InitDispatch /\ [][NextDispatch]_vars

InitReplay == InitWith(ReplayEnvs)

ReceiveReplay == ReceiveFrom(ReplayRequests)

\* Requests one after the other, the outcome of each noted as the next is
\* awaited.
NextReplay ==
  \/ ReceiveReplay
  \/ Tick
  \/ Verify
  \/ Filter
  \/ Normalize
  \/ Dispatch
  \/ Settle
  \/ Join
  \/ NextRequestNoted

SpecReplay == InitReplay /\ [][NextReplay]_vars

InitLive == InitWith(LiveEnvs)

\* The awaited verifyStripeSignature settles, one way or the other: the
\* step Verify seen from outside (every Verify step is one, and it can
\* happen exactly when Verify can).
VerifyReturns ==
  /\ pc = "Verifying"
  /\ \E e \in {ErrNone, ErrMissingSecret, ErrBadHeader, ErrTimestamp,
               ErrMismatch} :
       /\ verified' = (IF e = ErrNone THEN "ok" ELSE "failed")
       /\ pc' = AfterVerify(e)
       /\ err' = (IF e = ErrNone THEN err ELSE e)
       /\ response' = (IF e = ErrNone THEN response ELSE ErrorResponse(e))
  /\ UNCHANGED <<prev, env, now, served, req, evt, info, tasks, invoked,
                 outbound>>

\* The runtime runs every step of the handler that can run, and every
\* outbound call eventually settles.
Fairness ==
  /\ WF_vars(VerifyReturns)
  /\ WF_vars(Filter)
  /\ WF_vars(Normalize)
  /\ WF_vars(Dispatch)
  /\ WF_vars(Settle)
  /\ WF_vars(Join)

SpecLive == InitLive /\ [][NextDispatch]_vars /\ Fairness

(***************************************************************************)
(* The normalizer alone: Init draws an accepted event, Normalize applies   *)
(* normalizeStripeEvent to it.                                             *)
(***************************************************************************)
QuantityValues ==
  {JUndef, JNull, JStr(<<>>), JStr(<<"3">>), JStr(<<"1", "2">>), JNum(3),
   JStr(<<"0">>), JNum(0), JStr(<<"-", "2">>), JNum(-2),
   JStr(<<"a", "b", "c">>), JStr(<<"2", "x">>), JStr(<<" ", "7">>)}

NormalizeObjects ==
  {[EmptyObject EXCEPT !.metadata_quantity = q, !.amount_total = at,
                       !.amount_paid = ap, !.amount_due = ad,
                       !.amount = am, !.amount_captured = ac,
                       !.currency = c,
                       !.metadata_product_name = pn,
                       !.payment_method_types_0 = pm] :
     q \in QuantityValues, at \in {JUndef, JNull, JNum(0)},
     ap \in {JUndef, JNum(250)},
     ad \in {JUndef, JNull, JNum(0)},
     am \in {JUndef, JNum(1999), JNum(5)},
     ac \in {JUndef, JNum(100)},
     c \in {JUndef, JStr(<<"u", "s", "d">>), JStr(<<"c", "n", "y">>)},
     pn \in {JUndef, JStr(<<"Widget">>)},
     pm \in {JUndef, JStr(<<"card">>)}}

NormalizeEvents ==
  {Event(JStr(<<"payment_intent.succeeded">>), id, TRUE, o) :
     id \in {JUndef, JStr(<<"evt_1">>)}, o \in NormalizeObjects}
  \cup {Event(ty, id, FALSE, EmptyObject) :
          ty \in okTypes, id \in {JUndef, JStr(<<"evt_1">>)}}

InitNormalize ==
  /\ env = Env(LiveSecret, Undefined, Undefined, Undefined, Undefined,
               Undefined, Undefined, Undefined, Undefined)
  /\ now = StartTime
  /\ served = 0
  /\ req = NoRequest
  /\ pc = "Normalizing"
  /\ verified = "ok"
  /\ evt \in NormalizeEvents
  /\ info = <<>>
  /\ tasks = NoTasks
  /\ invoked = NoCalls
  /\ outbound = NoCalls
  /\ response = NoResponse
  /\ err = ErrNone
  /\ prev = NoPrev

NextNormalize == Normalize

SpecNormalize == InitNormalize /\ [][NextNormalize]_vars

(***************************************************************************)
(* Properties                                                              *)
(***************************************************************************)
IsWebhook(r) == r.method = "POST" /\ r.path = "/stripe-webhook"

NoAdapterActivity ==
  \A a \in Adapters : invoked[a] = 0 /\ outbound[a] = 0 /\ tasks[a] = "none"

\* The request in hand fails verifyStripeSignature under the configuration
\* and the clock.
SignatureFails ==
  /\ IsWebhook(req)
  /\ verifyStripeSignature(req.sigHeader, req.rawBody,
                           env.STRIPE_WEBHOOK_SECRET, TimestampTolerance(env),
                           now) # ErrNone

\* C1: a POST /stripe-webhook request whose signature verification fails
\* ends in Rejected with status 400 as soon as verification has run, and no
\* notifier adapter is invoked for it, whatever adapters are configured.
C1_RejectedWithoutAdapters ==
  (SignatureFails /\ pc # "Verifying") =>
    /\ pc = "Rejected"
    /\ response.status = 400
    /\ NoAdapterActivity

C1_Witness ==
  /\ SignatureFails
  /\ pc = "Rejected"
  /\ err = ErrMismatch
  /\ \A a \in Adapters : Enabled(env, a)

\* |now - t| <= tolerance on numbers (false when either side is NaN).
WithinTolerance(nowSec, ts, tolerance) ==
  /\ ~ts.nan
  /\ ~tolerance.nan
  /\ (IF nowSec - ts.val < 0 THEN ts.val - nowSec ELSE nowSec - ts.val)
       <= tolerance.val

\* C2: for a non-empty secret, a header "t=<t>,v1=<v1>" and a numeric
\* tolerance, verification succeeds exactly when v1 is the lower-case hex
\* HMAC of the secret over "<t>.<rawBody>" and |now - t| <= tolerance (the
\* boundary included).
C2_VerifyIffTagAndFresh ==
  (/\ verified # "none"
   /\ req.form = "canonical"
   /\ Truthy(env.STRIPE_WEBHOOK_SECRET)
   /\ ~TimestampTolerance(env).nan) =>
    (verified = "ok" <=>
       /\ req.v1 = TagFor(env.STRIPE_WEBHOOK_SECRET, req.t, req.rawBody)
       /\ WithinTolerance(now, parseInt(req.t), TimestampTolerance(env)))

\* Accepted exactly on the boundary |now - t| = tolerance > 0.
C2_Witness ==
  /\ verified = "ok"
  /\ req.form = "canonical"
  /\ ~TimestampTolerance(env).nan
  /\ TimestampTolerance(env).val > 0
  /\ now - parseInt(req.t).val = TimestampTolerance(env).val

Failed(t) == t \in {"non2xx", "neterr", "threw"}

Settled(t) == t \in {"ok", "non2xx", "neterr", "threw"}

\* C3: when some enabled adapters fail, every enabled adapter has still been
\* invoked once and keeps its own task, the request is not answered with an
\* error, and it completes with 200 with every task settled.
C3_FailureIsolated ==
  (\E a \in Adapters : Failed(tasks[a])) =>
    /\ pc \in {"Awaiting", "Completed"}
    /\ response \in {NoResponse, OkResponse}
    /\ \A a \in Adapters :
         Enabled(env, a) => invoked[a] = 1 /\ tasks[a] # "none"
    /\ pc = "Completed" =>
         /\ response = OkResponse
         /\ \A a \in Adapters : Enabled(env, a) => Settled(tasks[a])

\* Three adapters enabled, one failed, the other two delivered, 200.
C3_Witness ==
  /\ pc = "Completed"
  /\ response.status = 200
  /\ Cardinality({a \in Adapters : Enabled(env, a)}) = 3
  /\ Cardinality({a \in Adapters : Failed(tasks[a])}) = 1
  /\ Cardinality({a \in Adapters : tasks[a] = "ok"}) = 2

\* C4: once a request has reached Dispatching, no response exists while an
\* adapter task is pending, and at Completed every dispatched task has
\* settled (none was dropped).
C4_ResponseAfterAllSettled ==
  /\ (response # NoResponse) => \A a \in Adapters : tasks[a] # "pending"
  /\ (pc = "Awaiting") => response = NoResponse
  /\ (pc = "Completed") =>
       \A a \in Adapters : Enabled(env, a) => Settled(tasks[a])

C4_Witness ==
  /\ pc = "Completed"
  /\ response = OkResponse
  /\ \A a \in Adapters : Enabled(env, a) /\ Settled(tasks[a])

\* C5: a verified request whose body decodes to an event of a type outside
\* the three accepted ones ends in Ignored with 200; the normalizer is not
\* run and no adapter is invoked, whatever adapters are configured.
C5_OtherTypesIgnored ==
  LET p == JSONParse(req.rawBody)
  IN (/\ verified = "ok"
      /\ pc # "Filtering"
      /\ p.ok
      /\ p.value.kind # "null"
      /\ p.value.type \notin {JStr(<<"payment_intent.succeeded">>),
                              JStr(<<"checkout.session.completed">>),
                              JStr(<<"invoice.payment_succeeded">>)}) =>
       /\ pc = "Ignored"
       /\ response.status = 200
       /\ info = <<>>
       /\ NoAdapterActivity

C5_Witness ==
  /\ pc = "Ignored"
  /\ verified = "ok"
  /\ evt.type = JStr(<<"customer.created">>)
  /\ \A a \in Adapters : Enabled(env, a)

Present(v) == v # Undefined /\ v # <<>>

Configured ==
  [a \in Adapters |->
     CASE a = "mail" -> Present(env.MAIL_TO) /\ Present(env.MAIL_FROM)
       [] a = "serverchan" -> Present(env.SC_KEY)
       [] a = "dingtalk" -> Present(env.DINGTALK_WEBHOOK)
       [] a = "telegram" -> Present(env.TELEGRAM_BOT_TOKEN)
                            /\ Present(env.TELEGRAM_CHAT_ID)]

\* C7: for a request past Dispatching, the adapters invoked are exactly the
\* configured ones, each once, with at most one outbound call each; with no
\* adapter configured the request completes with 200 and no outbound call.
C7_ExactlyEnabledAdapters ==
  /\ pc \in {"Awaiting", "Completed"} =>
       \A a \in Adapters :
         /\ invoked[a] = (IF Configured[a] THEN 1 ELSE 0)
         /\ outbound[a] <= invoked[a]
  /\ pc \notin {"Awaiting", "Completed"} => \A a \in Adapters : invoked[a] = 0
  /\ (pc = "Awaiting" /\ \A a \in Adapters : ~Configured[a]) =>
       /\ \A a \in Adapters : outbound[a] = 0
       /\ Joined(tasks) = "fulfilled"
  /\ (pc = "Completed" /\ \A a \in Adapters : ~Configured[a]) =>
       /\ response = OkResponse
       /\ \A a \in Adapters : outbound[a] = 0

\* One key of a two-key adapter is set: that adapter is not invoked.
C7_Witness ==
  /\ pc = "Completed"
  /\ Present(env.MAIL_TO) /\ ~Present(env.MAIL_FROM)
  /\ Present(env.TELEGRAM_BOT_TOKEN) /\ Present(env.TELEGRAM_CHAT_ID)
  /\ invoked = [a \in Adapters |->
                  IF a \in {"telegram", "dingtalk"} THEN 1 ELSE 0]

\* C8: every request that fails authentication, whatever the reason,
\* receives the one response 400 "signature verification failed".
C8_UniformRejection ==
  (verified = "failed" /\ pc = "Rejected") =>
    /\ err \in {ErrMissingSecret, ErrBadHeader, ErrTimestamp, ErrMismatch}
    /\ response = Response(400, "signature verification failed")

C8_Witness ==
  /\ verified = "failed"
  /\ pc = "Rejected"
  /\ err = ErrTimestamp
  /\ response = Response(400, "signature verification failed")

Normalized == pc = "Dispatching" /\ Len(info) = 1

\* C9 as stated: with data.object missing the record has product_name
\* "payment", quantity 1, payment_method "processor", amount_minor 0 and
\* currency "USD".
C9_Original ==
  (Normalized /\ ~evt.has_object) =>
    /\ info[1].product_name = JStr(<<"payment">>)
    /\ info[1].quantity = Num(1)
    /\ info[1].payment_method = JStr(<<"processor">>)
    /\ info[1].amount_minor = JNum(0)
    /\ info[1].currency = <<"U", "S", "D">>

\* C9 amended: with data.object missing, normalization yields a record with
\* quantity 1, amount_minor 0, currency "USD", and the literals of the code
\* for the other two defaults: product_name U+652F U+4ED8 and
\* payment_method "stripe".
C9_Amended ==
  /\ (pc = "Dispatching") => Len(info) = 1
  /\ (Normalized /\ ~evt.has_object) =>
       /\ info[1].product_name = JStr(<<"U+652F", "U+4ED8">>)
       /\ info[1].quantity = Num(1)
       /\ info[1].payment_method = JStr(<<"stripe">>)
       /\ info[1].amount_minor = JNum(0)
       /\ info[1].currency = <<"U", "S", "D">>

C9_Witness == Normalized /\ ~evt.has_object /\ evt.id = JUndef

\* Text of an integer: an optional minus sign, then digits only.
IsIntegerText(s) ==
  LET d == IF s # <<>> /\ Head(s) = "-" THEN Tail(s) ELSE s
  IN d # <<>> /\ \A i \in 1..Len(d) : IsDigit(d[i])

\* metadata.quantity is an integer (a number, or the text of one).
IsIntegerValue(q) ==
  q.k = "number" \/ (q.k = "string" /\ IsIntegerText(q.s))

IntegerOf(q) == IF q.k = "number" THEN q.n ELSE parseInt(q.s).val

\* C10 as stated: the quantity is an integer >= 1; it is the integer of
\* metadata.quantity when that is a positive integer, and 1 when the field
\* is absent, unparsable, zero or negative.
C10_Original ==
  LET q == evt.object.metadata_quantity
  IN (Normalized /\ evt.has_object) =>
       /\ ~info[1].quantity.nan
       /\ info[1].quantity.val >= 1
       /\ (IsIntegerValue(q) /\ IntegerOf(q) > 0) =>
            info[1].quantity.val = IntegerOf(q)
       /\ (IsIntegerValue(q) /\ IntegerOf(q) <= 0) => info[1].quantity.val = 1
       /\ (q \in {JUndef, JNull, JStr(<<>>), JStr(<<"a", "b", "c">>)}) =>
            info[1].quantity.val = 1

\* C11: a request that is neither POST /stripe-webhook nor GET /health is
\* answered 404, GET /health is answered 200 with body "ok", and neither
\* runs verification, decoding, normalization or any adapter.
C11_OtherRoutesUntouched ==
  (req # NoRequest /\ ~IsWebhook(req)) =>
    /\ response = IF req.method = "GET" /\ req.path = "/health"
                  THEN Response(200, "ok")
                  ELSE Response(404, "Not Found")
    /\ pc = IF req.method = "GET" /\ req.path = "/health"
            THEN "Health" ELSE "NotFound"
    /\ verified = "none"
    /\ evt = NoEvent
    /\ info = <<>>
    /\ err = ErrNone
    /\ NoAdapterActivity

\* A correctly signed event sent with PUT to the webhook path: 404.
C11_Witness ==
  /\ req.method = "PUT"
  /\ req.path = "/stripe-webhook"
  /\ response.status = 404
  /\ Truthy(env.STRIPE_WEBHOOK_SECRET)
  /\ \A a \in Adapters : Enabled(env, a)

\* JSON.parse has run on the body of the request in hand.
Decoded == evt # NoEvent \/ err \in {ErrSyntax, ErrType}

AdapterActivity == \E a \in Adapters : invoked[a] > 0 \/ tasks[a] # "none"

\* C12: the body is JSON-decoded only after verification of the raw body
\* has succeeded, a request that failed verification is never decoded, and
\* the type filter, normalization and dispatch come after successful
\* verification, in that order.
C12_VerifyBeforeDecode ==
  /\ pc = "Verifying" => ~Decoded /\ verified = "none"
  /\ Decoded => verified = "ok" /\ ~SignatureFails
  /\ verified = "failed" =>
       ~Decoded /\ info = <<>> /\ ~AdapterActivity /\ pc = "Rejected"
  /\ pc \in {"Ignored", "Normalizing"} => Decoded /\ info = <<>>
  /\ info # <<>> => Decoded /\ evt.type \in okTypes /\ verified = "ok"
  /\ AdapterActivity => info # <<>>

C12_Witness ==
  /\ pc = "Completed"
  /\ verified = "ok"
  /\ Decoded
  /\ info # <<>>
  /\ \A a \in Adapters : invoked[a] = 1

\* The tolerance the freshness check is stated to use: the number that
\* SIG_TOLERANCE_SEC gives, and 300 when it gives none.
StatedTolerance(e) ==
  IF e.SIG_TOLERANCE_SEC = Undefined \/ parseInt(e.SIG_TOLERANCE_SEC).nan
  THEN Num(300)
  ELSE parseInt(e.SIG_TOLERANCE_SEC)

\* The request in hand carries a numeric timestamp outside the stated
\* tolerance.
StaleOrFuture ==
  /\ IsWebhook(req)
  /\ req.form = "canonical"
  /\ ~parseInt(req.t).nan
  /\ ~WithinTolerance(now, parseInt(req.t), StatedTolerance(env))

\* C13 as stated: whatever SIG_TOLERANCE_SEC is (unset, a numeric string, a
\* string that is no integer), a request with |now - t| > tolerance is
\* rejected with 400 and never reaches Dispatching, the tolerance being the
\* configured number, or 300 when the configuration supplies none.
C13_Original ==
  (StaleOrFuture /\ pc # "Verifying") =>
    /\ pc = "Rejected"
    /\ response.status = 400
    /\ NoAdapterActivity

\* The mail adapter is enabled and its MAIL_HEADERS is not JSON.
MailMisconfigured ==
  Enabled(env, "mail") /\ env.MAIL_HEADERS = MailHeadersBroken

\* C14: with the mail adapter enabled and invalid JSON in MAIL_HEADERS, the
\* adapter's failure stays with the coordinator: the request is not
\* rejected and completes with 200, every other enabled adapter is invoked
\* with its outbound call made, and the mail adapter is called once only.
C14_BadMailHeadersRecovered ==
  (MailMisconfigured /\ info # <<>>) =>
    /\ pc \in {"Dispatching", "Awaiting", "Completed"}
    /\ response \in {NoResponse, OkResponse}
    /\ pc = "Completed" => response = Response(200, "ok")
    /\ pc \in {"Awaiting", "Completed"} =>
         /\ tasks["mail"] = "threw"
         /\ invoked["mail"] = 1
         /\ outbound["mail"] = 0
         /\ \A a \in Adapters \ {"mail"} :
              Enabled(env, a) =>
                invoked[a] = 1 /\ outbound[a] = 1 /\ tasks[a] # "none"

\* All four adapters enabled, the mail adapter threw, the other three
\* delivered, 200.
C14_Witness ==
  /\ MailMisconfigured
  /\ pc = "Completed"
  /\ response.status = 200
  /\ tasks["mail"] = "threw"
  /\ \A a \in Adapters \ {"mail"} : Enabled(env, a) /\ tasks[a] = "ok"

\* The amount candidates of data.object in the stated order.
AmountCandidates(o) ==
  <<o.amount_total, o.amount_paid, o.amount_due, o.amount, o.amount_captured>>

\* The first candidate that is neither absent nor null, and 0 when none is.
RECURSIVE FirstNonNull(_)
FirstNonNull(cs) ==
  IF cs = <<>> THEN JNum(0)
  ELSE IF Head(cs) \notin {JUndef, JNull} THEN Head(cs)
  ELSE FirstNonNull(Tail(cs))

\* text reads "<code> <whole>.<two digits>" with whole and the two digits
\* the quotient and remainder of n by 100.
ReadsAsHundredths(text, code, n) ==
  LET words == Split(text, " ")
      parts == Split(words[2], ".")
  IN /\ Len(words) = 2
     /\ words[1] = code
     /\ Len(parts) = 2
     /\ parts[1] # <<>>
     /\ \A i \in 1..Len(parts[1]) : IsDigit(parts[1][i])
     /\ Len(parts[1]) > 1 => parts[1][1] # "0"
     /\ DecimalValue(parts[1]) = n \div 100
     /\ Len(parts[2]) = 2
     /\ \A i \in 1..2 : IsDigit(parts[2][i])
     /\ DecimalValue(parts[2]) = n % 100

\* C15: amount_minor is the first non-null candidate of data.object in the
\* order amount_total, amount_paid, amount_due, amount, amount_captured,
\* and 0 when all are absent; for a non-negative integer amount_minor,
\* amount_readable is the uppercased currency, a space, and amount_minor
\* over 100 with exactly two decimal digits (1999 usd gives "USD 19.99").
C15_AmountResolvedAndFormatted ==
  Normalized =>
    /\ info[1].amount_minor = FirstNonNull(AmountCandidates(evt.object))
    /\ (info[1].amount_minor.k = "number" /\ info[1].amount_minor.n >= 0) =>
         ReadsAsHundredths(info[1].amount_readable, info[1].currency,
                           info[1].amount_minor.n)
    /\ (info[1].amount_minor = JNum(1999)
        /\ evt.object.currency = JStr(<<"u", "s", "d">>)) =>
         info[1].amount_readable
           = <<"U", "S", "D", " ", "1", "9", ".", "9", "9">>

\* amount_total is 0 and wins over amount_paid 250: "0.00".
C15_Witness ==
  /\ Normalized
  /\ evt.object.amount_total = JNum(0)
  /\ evt.object.amount_paid = JNum(250)
  /\ evt.object.amount = JNum(1999)
  /\ info[1].amount_minor = JNum(0)
  /\ info[1].amount_readable = <<"U", "S", "D", " ", "0", ".", "0", "0">>

\* C16: once built, the PaymentRecord is never modified: from Dispatching
\* on it is the record the normalizer made of the event, whichever adapters
\* have run and in whatever order their calls have settled, so every
\* adapter is handed the same values.
C16_RecordUnmodified ==
  /\ pc \in {"Dispatching", "Awaiting", "Completed"} =>
       info = <<normalizeStripeEvent(evt, now * 1000)>>
  /\ pc \in {"Awaiting", "Completed"} =>
       \A a \in Adapters :
         AfterSends(env, <<a>>, info[1])
           = normalizeStripeEvent(evt, now * 1000)

\* All four adapters have run, their calls settled differently.
C16_Witness ==
  /\ pc = "Completed"
  /\ info = <<normalizeStripeEvent(evt, now * 1000)>>
  /\ \A a \in Adapters : Enabled(env, a)
  /\ tasks["telegram"] = "ok"
  /\ tasks["dingtalk"] = "neterr"
  /\ tasks["serverchan"] = "non2xx"

\* The request in hand is checked against the secret its tags were made
\* with, at a time within the tolerance of its timestamp TNow.
LiveAndFresh ==
  /\ IsWebhook(req)
  /\ verified # "none"
  /\ env.STRIPE_WEBHOOK_SECRET = LiveSecret
  /\ WithinTolerance(now, parseInt(TNow), TimestampTolerance(env))

\* C17: when a key occurs more than once in the signature header, the last
\* entry with a non-empty value is the one used: a wrong v1 followed by the
\* right one is accepted, the right v1 followed by a wrong one is rejected
\* with 400, an empty later entry does not replace an earlier value, and
\* the same holds for t.
C17_LastEntryWins ==
  LiveAndFresh =>
    /\ req.form = "v1-bad-then-good" => verified = "ok"
    /\ req.form = "v1-good-then-bad" =>
         /\ verified = "failed"
         /\ err = ErrMismatch
         /\ response.status = 400
         /\ pc = "Rejected"
    /\ req.form = "v1-good-then-empty" => verified = "ok"
    /\ req.form = "t-old-then-now" => verified = "ok"

\* The right tag followed by a wrong one: rejected.
C17_Witness ==
  /\ LiveAndFresh
  /\ req.form = "v1-good-then-bad"
  /\ pc = "Rejected"
  /\ err = ErrMismatch

Answered == pc \in {"Rejected", "Ignored", "Completed"} /\ response # NoResponse

\* C18: when every outbound call eventually settles, every POST
\* /stripe-webhook request is eventually answered, in exactly one of
\* Rejected, Ignored and Completed, and its response, once given, is the
\* only one; while a dispatched call has not settled the request has no
\* response, so a call that never settles leaves it unanswered for ever.
C18_EveryRequestAnswered ==
  /\ (pc = "Verifying") ~> Answered
  /\ [][(IsWebhook(req) /\ response # NoResponse) =>
          (response' = response /\ pc' = pc) \/ pc' = "Idle"]_vars
  /\ []((\E a \in Adapters : tasks[a] = "pending") =>
          (response = NoResponse /\ pc = "Awaiting"))
  /\ [](IsWebhook(req) =>
          (response # NoResponse <=> pc \in {"Rejected", "Ignored", "Completed"}))

\* The second request served is answered too, after four outbound calls.
C18_Witness ==
  /\ served = 1
  /\ Answered
  /\ pc = "Completed"
  /\ \A a \in Adapters \ {"mail"} : outbound[a] = 1 /\ Settled(tasks[a])
  /\ tasks["mail"] = "threw"

\* The request in hand is the request served just before it, which was
\* accepted and completed.
Replayed == IsWebhook(req) /\ prev.req = req /\ prev.pc = "Completed"

\* C19: nothing is kept between requests, only the freshness window stands
\* against a replay: a signed request of an accepted type that was served
\* and is submitted again is accepted again while |now - t| <= tolerance,
\* with every enabled adapter invoked again as the first time, and is
\* rejected with 400 with no adapter invoked once |now - t| > tolerance.
C19_ReplayOnlyByFreshness ==
  /\ (/\ Replayed
      /\ pc # "Verifying"
      /\ WithinTolerance(now, parseInt(req.t), TimestampTolerance(env))) =>
       /\ verified = "ok"
       /\ pc \in {"Filtering", "Normalizing", "Dispatching", "Awaiting",
                  "Completed"}
       /\ pc \in {"Awaiting", "Completed"} =>
            /\ invoked = prev.invoked
            /\ \A a \in Adapters :
                 invoked[a] = (IF Enabled(env, a) THEN 1 ELSE 0)
       /\ pc = "Completed" => response = prev.response
  /\ (/\ Replayed
      /\ pc # "Verifying"
      /\ ~TimestampTolerance(env).nan
      /\ ~WithinTolerance(now, parseInt(req.t), TimestampTolerance(env))) =>
       /\ pc = "Rejected"
       /\ response.status = 400
       /\ NoAdapterActivity

\* Served, then submitted again 400 s later under a tolerance of 600 s:
\* completed again, all four adapters invoked again.
C19_Witness ==
  /\ Replayed
  /\ pc = "Completed"
  /\ now = StartTime + 400
  /\ parseInt(req.t).val = StartTime
  /\ \A a \in Adapters : invoked[a] = 1 /\ prev.invoked[a] = 1

====
